---- MODULE Spec2Model ----
(***************************************************************************)
(* authproxy: a reverse proxy that injects an Authorization header whose   *)
(* value is produced by an external command and cached for a TTL.          *)
(*                                                                         *)
(* The model follows src/src/proxy.rs: the TokenCache (a tokio Mutex       *)
(* around an optional entry, held across the refresh), the credential      *)
(* callback of handle_request, the rewriting of the request and the        *)
(* forward step with its 600 s timeout.  One task is one execution of      *)
(* handle_request; tasks run concurrently and share the cache.             *)
(***************************************************************************)
EXTENDS Integers, Sequences, FiniteSets, TLC

\* ------------------------------------------------------------------ bounds

\* Number of handle_request executions (tasks) in a behaviour.
NumTasks == 2
\* The horizon of the clock (seconds).
MaxTime == 600
\* The largest step of the clock (seconds).
TickStep == 300

\* ------------------------------------------------------ program constants

\* timeout(Duration::from_secs(600), ...)
ForwardTimeoutSecs == 600

\* Duration::from_secs takes a u64 and Instant keeps signed 64-bit seconds, so
\* a Duration can be about twice as large as the largest Instant.  TLC's
\* integers are 32 bits wide: the model keeps that relation between the two
\* widths on a 16-bit scale (DurationMax = 2 * InstantMax + 1).
InstantMax == 32767
DurationMax == 65535

Tasks == 1..NumTasks
None == [none |-> TRUE]

\* ------------------------------------------------------------ byte strings

\* Strings the code inspects byte by byte are sequences of byte values.
\* "Bearer " as bytes.
BearerPrefix == <<66, 101, 97, 114, 101, 114, 32>>

\* char::is_whitespace on the ASCII range, as str::trim uses it.
IsWhitespace(b) == b \in {9, 10, 11, 12, 13, 32}

RECURSIVE TrimStart(_)
TrimStart(bs) ==
    IF bs # <<>> /\ IsWhitespace(Head(bs)) THEN TrimStart(Tail(bs)) ELSE bs

RECURSIVE TrimEnd(_)
TrimEnd(bs) ==
    IF bs # <<>> /\ IsWhitespace(bs[Len(bs)])
    THEN TrimEnd(SubSeq(bs, 1, Len(bs) - 1))
    ELSE bs

\* The output taken as it is, untrimmed.
TrimNone(bs) == bs

\* str::trim
Trim(bs) == TrimEnd(TrimStart(bs))

\* String::from_utf8 succeeds on these bytes.  The outputs the model draws are
\* ASCII bytes and the byte 255, which no UTF-8 text contains.
Utf8Valid(bs) == \A i \in 1..Len(bs) : bs[i] < 128

\* HeaderValue::from_str accepts a byte iff it is a tab (9) or it is >= 32 and
\* not DEL (127).
HeaderByteValid(b) == b = 9 \/ (b >= 32 /\ b # 127)

HeaderValueValid(bs) == \A i \in 1..Len(bs) : HeaderByteValid(bs[i])

\* ------------------------------------------------------- credential command

\* What one run of the credential command can end in: the spawn fails, or the
\* process exits with a status and its captured standard output.
Stdouts ==
    { <<32, 65, 10>>,        \* " A\n"
      <<66, 10>>,            \* "B\n"
      <<65, 10, 66>>,        \* "A\nB": a line break inside the token
      <<255>> }              \* not UTF-8

ProviderOutcomes ==
    { [kind |-> "spawn_failed", status |-> 0, stdout |-> <<>>],
      [kind |-> "exited", status |-> 2, stdout |-> <<66, 10>>] }
    \cup { [kind |-> "exited", status |-> 0, stdout |-> o] : o \in Stdouts }

\* How a run ended, for the history: the exit status, -1 when nothing ran.
ExitCode(o) == IF o.kind = "spawn_failed" THEN -1 ELSE o.status

\* The closure without its check of the exit status.
CallbackResultIgnoresStatus(o) ==
    IF o.kind = "spawn_failed"
    THEN [ok |-> FALSE, err |-> "SubprocessSpawnFailed", token |-> <<>>]
    ELSE IF ~Utf8Valid(o.stdout)
    THEN [ok |-> FALSE, err |-> "InvalidCredentialOutput", token |-> <<>>]
    ELSE [ok |-> TRUE, err |-> "", token |-> Trim(o.stdout)]

\* The closure passed to get_or_refresh, applied to what the command did:
\* output().await?, the status check, from_utf8(..)?.trim().
CallbackResult(o) ==
    IF o.kind = "spawn_failed"
    THEN [ok |-> FALSE, err |-> "SubprocessSpawnFailed", token |-> <<>>]
    ELSE IF o.status # 0
    THEN [ok |-> FALSE, err |-> "SubprocessFailed", token |-> <<>>]
    ELSE IF ~Utf8Valid(o.stdout)
    THEN [ok |-> FALSE, err |-> "InvalidCredentialOutput", token |-> <<>>]
    ELSE [ok |-> TRUE, err |-> "", token |-> Trim(o.stdout)]

\* --------------------------------------------------------------------- URIs

\* A URI string is the sequence of its lexical pieces; a parsed Uri (and
\* http::uri::Parts) has an optional scheme, authority and path-and-query.
Schemes == {"http", "https"}
Authorities == {"upstream.example:8443", "proxy.local", "proxy.local:443"}
PathAndQueries == {"/foo/bar?x=1", "/p", "/base", "/api"}
NoPart == ""

UriParts(s, a, p) == [scheme |-> s, authority |-> a, path_and_query |-> p]

\* str::parse::<Uri>: an absolute URI needs a non-empty authority after
\* "scheme://"; without a scheme the string is either a path (origin form)
\* or an authority alone (authority form); the empty string is an error.
ParseUri(s) ==
    IF Len(s) >= 2 /\ s[1] \in Schemes /\ s[2] = "://"
    THEN IF Len(s) = 3 /\ s[3] \in Authorities
         THEN [ok |-> TRUE, uri |-> UriParts(s[1], s[3], NoPart)]
         ELSE IF Len(s) = 4 /\ s[3] \in Authorities /\ s[4] \in PathAndQueries
         THEN [ok |-> TRUE, uri |-> UriParts(s[1], s[3], s[4])]
         ELSE [ok |-> FALSE, uri |-> UriParts(NoPart, NoPart, NoPart)]
    ELSE IF Len(s) = 1 /\ s[1] \in PathAndQueries
    THEN [ok |-> TRUE, uri |-> UriParts(NoPart, NoPart, s[1])]
    ELSE IF Len(s) = 1 /\ s[1] \in Authorities
    THEN [ok |-> TRUE, uri |-> UriParts(NoPart, s[1], NoPart)]
    ELSE [ok |-> FALSE, uri |-> UriParts(NoPart, NoPart, NoPart)]

\* Uri::from_parts: a scheme needs an authority and a path; an authority with
\* a path needs a scheme.
FromPartsOk(p) ==
    IF p.scheme # NoPart
    THEN p.authority # NoPart /\ p.path_and_query # NoPart
    ELSE ~(p.authority # NoPart /\ p.path_and_query # NoPart)

\* The configured target strings the model draws from.
TargetUrls ==
    { <<"https", "://", "upstream.example:8443">>,
      <<"https", "://", "upstream.example:8443", "/base">>,
      <<"/api">>,
      <<"upstream.example:8443">>,
      <<>> }

\* ----------------------------------------------------------------- requests

HeaderNames == {"authorization", "host", "accept"}

\* Inbound requests: origin form with Host and a client Authorization header;
\* absolute form with two Authorization values and no Host; CONNECT in
\* authority form (no path).
Requests ==
    { [method |-> "GET", uri |-> UriParts(NoPart, NoPart, "/foo/bar?x=1"),
       headers |-> [h \in HeaderNames |->
                      CASE h = "authorization" -> << <<66, 97, 115>> >>
                        [] h = "host" -> << <<112>> >>
                        [] OTHER -> << <<97>> >>],
       body |-> "b1"],
      [method |-> "POST", uri |-> UriParts("http", "proxy.local", "/p"),
       headers |-> [h \in HeaderNames |->
                      CASE h = "authorization" -> << <<120>>, <<121>> >>
                        [] h = "host" -> <<>>
                        [] OTHER -> << <<97>>, <<98>> >>],
       body |-> "b2"],
      [method |-> "CONNECT", uri |-> UriParts(NoPart, "proxy.local:443", NoPart),
       headers |-> [h \in HeaderNames |->
                      CASE h = "host" -> << <<112>> >>
                        [] OTHER -> <<>>],
       body |-> ""] }

\* -------------------------------------------------------------------- state

VARIABLES
    ttl,            \* TokenCache.ttl, in seconds (ProxyParams.cache_ttl_secs)
    target_url,     \* ProxyParams.target_url
    now,            \* the monotonic clock, in seconds
    entry,          \* TokenCache.entry: None or [token, inserted_at]
    lock_owner,     \* the task holding the MutexGuard, 0 when unlocked
    lock_waiters,   \* the tasks queued in entry.lock(), oldest first
    tasks,          \* handle_request executions, one record per task
    invocations,    \* history: every run of the credential command, in order:
                    \* [status, code, token, ended_at]
    entry_src       \* history: the invocation that wrote entry, 0 for none

vars == <<ttl, target_url, now, entry, lock_owner, lock_waiters, tasks,
          invocations, entry_src>>

config == <<ttl, target_url>>

\* A task before its request arrived.  pc is the await the task is at; req,
\* out, token_value and sent_at are locals of handle_request; result is what it
\* returned.  History, for the properties: checked_at is the instant of the
\* cache check, waited_on the command run outstanding when the task called
\* lock(), seen the run whose entry the check found in the slot, src the run
\* whose token the call returned, n_invocations and n_sends the command runs
\* and upstream sends the task made.
IdleTask ==
    [pc |-> "idle", req |-> None, out |-> None, token_value |-> <<>>,
     result |-> "", sent_at |-> 0, checked_at |-> 0, waited_on |-> 0,
     seen |-> 0, src |-> 0, n_invocations |-> 0, n_sends |-> 0]

\* The TTLs the model draws: always refresh, an ordinary TTL that is no
\* multiple of the clock step, and the largest Duration.
TtlChoices == {0, 450, DurationMax}

\* A target with scheme and authority and a plain GET: the inputs of the
\* specification of the cache under concurrent requests.
PlainTarget == <<"https", "://", "upstream.example:8443">>
PlainRequests == {r \in Requests : r.method = "GET"}

Init ==
    /\ ttl \in TtlChoices
    /\ target_url = PlainTarget
    /\ now = 0
    /\ entry = None
    /\ lock_owner = 0
    /\ lock_waiters = <<>>
    /\ tasks = [t \in Tasks |-> IdleTask]
    /\ invocations = <<>>
    /\ entry_src = 0

\* ------------------------------------------------------------------ helpers

\* request_parts.uri after lines 106-111: the target's scheme and authority,
\* the request's own path and query.
RewrittenParts(req, target) ==
    UriParts(target.scheme, target.authority, req.uri.path_and_query)

\* An insert that adds the value to those the name has (HeaderMap::append).
HeaderAppend(headers, name, value) ==
    [headers EXCEPT ![name] = Append(@, value)]

\* HeaderMap::insert replaces every value of the name by the one value;
\* HeaderMap::remove drops every value of the name.
HeaderInsert(headers, name, value) == [headers EXCEPT ![name] = <<value>>]
HeaderRemove(headers, name) == [headers EXCEPT ![name] = <<>>]

\* A header value that is the token alone.
TokenHeaderBare(token) == token

\* format!("Bearer {}", token_value)
TokenHeader(token) == BearerPrefix \o token

\* The outgoing request of lines 133-142, given the rewritten request parts.
OutgoingRequest(parts, token) ==
    [parts EXCEPT !.headers =
        HeaderRemove(HeaderInsert(@, "authorization", TokenHeader(token)), "host")]

\* client.request: hyper's client takes a request whose URI has a scheme and
\* an authority, or a CONNECT with an authority; anything else fails at once
\* without touching the network.
ClientAccepts(r) ==
    \/ r.uri.scheme # NoPart /\ r.uri.authority # NoPart
    \/ r.method = "CONNECT" /\ r.uri.authority # NoPart

\* entry.inserted_at + self.ttl: Instant + Duration panics when the sum is no
\* Instant.
InstantOverflows(e) == e.inserted_at + ttl > InstantMax

\* A filter that never finds the entry fresh.
EntryFreshNever(e) == FALSE

\* A filter that still accepts the entry at the instant it expires.
EntryFreshInclusive(e) == e.inserted_at + ttl >= now

\* The filter of line 67.
EntryFresh(e) == e.inserted_at + ttl > now

\* A lock that is taken without looking at its holder.
LockFreeAlways == TRUE

\* entry.lock() finds the mutex free.
LockFree == lock_owner = 0

\* A timer that is armed a second late.
ForwardDeadlineLate(t) == tasks[t].sent_at + ForwardTimeoutSecs + 1

\* The deadline of the timeout around client.request.
ForwardDeadline(t) == tasks[t].sent_at + ForwardTimeoutSecs

\* The index of the credential command run that is outstanding, 0 for none.
Outstanding ==
    IF invocations # <<>> /\ invocations[Len(invocations)].status = "running"
    THEN Len(invocations)
    ELSE 0

\* ------------------------------------------------------------------ actions

\* handle_request returns: its locals are dropped, the result goes to the
\* caller.  The counters of the task's provider runs and sends are history.
Returned(task, result) ==
    [IdleTask EXCEPT !.pc = "done", !.result = result,
                     !.n_invocations = task.n_invocations,
                     !.n_sends = task.n_sends]

\* A guard that is leaked instead of dropped: the mutex stays with its holder.
ReleaseLockLeaked == UNCHANGED <<lock_owner, lock_waiters>>

\* Dropping the MutexGuard: tokio hands the mutex to the oldest waiter.
ReleaseLock ==
    IF lock_waiters = <<>>
    THEN lock_owner' = 0 /\ UNCHANGED lock_waiters
    ELSE lock_owner' = Head(lock_waiters) /\ lock_waiters' = Tail(lock_waiters)

\* A request arrives and handle_request runs up to its first await, lines
\* 100-111 and the call of entry.lock() at line 63: parse the target, replace
\* scheme and authority, rebuild the URI, then take the mutex if it is free
\* and queue behind its holder otherwise.  Tasks are numbered in the order
\* their requests arrive.
Receive(t, r) ==
    /\ tasks[t].pc = "idle"
    /\ IF t = 1 THEN TRUE ELSE tasks[t - 1].pc # "idle"
    /\ now <= MaxTime
    /\ LET target == ParseUri(target_url)
           parts == RewrittenParts(r, target.uri)
       IN  IF ~target.ok
           THEN /\ tasks' = [tasks EXCEPT ![t] = Returned(@, "InvalidTargetUrl")]
                /\ UNCHANGED <<lock_owner, lock_waiters>>
           ELSE IF ~FromPartsOk(parts)
           THEN /\ tasks' = [tasks EXCEPT ![t] = Returned(@, "InvalidUriParts")]
                /\ UNCHANGED <<lock_owner, lock_waiters>>
           ELSE /\ tasks' = [tasks EXCEPT ![t].pc = "locking", ![t].req = r,
                                          ![t].out = [r EXCEPT !.uri = parts],
                                          ![t].waited_on = Outstanding]
                /\ IF LockFree
                   THEN lock_owner' = t /\ UNCHANGED lock_waiters
                   ELSE /\ lock_waiters' = Append(lock_waiters, t)
                        /\ UNCHANGED lock_owner
    /\ UNCHANGED <<config, now, entry, invocations, entry_src>>

\* Holding the guard, lines 65-72: a fresh entry is returned and the guard
\* dropped; otherwise the callback starts the credential command, the guard
\* still held.  The addition of line 67 panics when it overflows: the task
\* unwinds and the guard is dropped.
Check(t) ==
    /\ tasks[t].pc = "locking"
    /\ lock_owner = t
    /\ IF entry # None /\ InstantOverflows(entry)
       THEN /\ tasks' = [tasks EXCEPT ![t] =
                       [IdleTask EXCEPT !.pc = "panicked", !.checked_at = now,
                                        !.seen = entry_src]]
            /\ ReleaseLock
            /\ UNCHANGED invocations
       ELSE IF entry # None /\ EntryFresh(entry)
       THEN /\ tasks' = [tasks EXCEPT ![t].pc = "got_token",
                                      ![t].checked_at = now,
                                      ![t].token_value = entry.token,
                                      ![t].seen = entry_src,
                                      ![t].src = entry_src]
            /\ ReleaseLock
            /\ UNCHANGED invocations
       ELSE /\ tasks' = [tasks EXCEPT ![t].pc = "refreshing",
                                      ![t].checked_at = now,
                                      ![t].seen = entry_src,
                                      ![t].src = Len(invocations) + 1,
                                      ![t].n_invocations = @ + 1]
            /\ invocations' = Append(invocations,
                  [status |-> "running", code |-> 0, token |-> <<>>,
                   ended_at |-> 0])
            /\ UNCHANGED <<lock_owner, lock_waiters>>
    /\ UNCHANGED <<config, now, entry, entry_src>>

\* A refresh that stores an entry before it looks at the callback's result.
ProviderExitStoresFailure(t, o) ==
    /\ tasks[t].pc = "refreshing"
    /\ LET r == CallbackResult(o)
           i == tasks[t].src
       IN  /\ entry' = [token |-> r.token, inserted_at |-> now]
           /\ entry_src' = i
           /\ tasks' = [tasks EXCEPT ![t] =
                 IF r.ok
                 THEN [@ EXCEPT !.pc = "got_token", !.token_value = r.token]
                 ELSE Returned(@, r.err)]
           /\ invocations' = [invocations EXCEPT
                 ![i].status = IF r.ok THEN "ok" ELSE "failed",
                 ![i].code = ExitCode(o),
                 ![i].token = r.token, ![i].ended_at = now]
    /\ ReleaseLock
    /\ UNCHANGED <<config, now>>

\* A refresh that runs the command a second time when the first run failed.
ProviderExitRetries(t, o) ==
    /\ tasks[t].pc = "refreshing"
    /\ LET r == CallbackResult(o)
           i == tasks[t].src
       IN  IF r.ok
           THEN /\ entry' = [token |-> r.token, inserted_at |-> now]
                /\ entry_src' = i
                /\ tasks' = [tasks EXCEPT ![t].pc = "got_token",
                                          ![t].token_value = r.token]
                /\ invocations' = [invocations EXCEPT
                                     ![i].status = "ok", ![i].code = ExitCode(o),
                                     ![i].token = r.token, ![i].ended_at = now]
                /\ ReleaseLock
           ELSE IF tasks[t].n_invocations < 2
           THEN /\ tasks' = [tasks EXCEPT ![t].src = Len(invocations) + 1,
                                          ![t].n_invocations = @ + 1]
                /\ invocations' = Append(
                      [invocations EXCEPT ![i].status = "failed",
                                          ![i].code = ExitCode(o),
                                          ![i].ended_at = now],
                      [status |-> "running", code |-> 0, token |-> <<>>,
                       ended_at |-> 0])
                /\ UNCHANGED <<entry, entry_src, lock_owner, lock_waiters>>
           ELSE /\ tasks' = [tasks EXCEPT ![t] = Returned(@, r.err)]
                /\ invocations' = [invocations EXCEPT
                                     ![i].status = "failed",
                                     ![i].code = ExitCode(o),
                                     ![i].ended_at = now]
                /\ UNCHANGED <<entry, entry_src>>
                /\ ReleaseLock
    /\ UNCHANGED <<config, now>>

\* The credential command ends, lines 72-74: an error returns through `?`
\* with the entry untouched; a token is stored with inserted_at = now.  The
\* guard is dropped either way.
ProviderExit(t, o) ==
    /\ tasks[t].pc = "refreshing"
    /\ LET r == CallbackResult(o)
           i == tasks[t].src
       IN  IF r.ok
           THEN /\ entry' = [token |-> r.token, inserted_at |-> now]
                /\ entry_src' = i
                /\ tasks' = [tasks EXCEPT ![t].pc = "got_token",
                                          ![t].token_value = r.token]
                /\ invocations' = [invocations EXCEPT
                                     ![i].status = "ok", ![i].code = ExitCode(o),
                                     ![i].token = r.token, ![i].ended_at = now]
           ELSE /\ tasks' = [tasks EXCEPT ![t] = Returned(@, r.err)]
                /\ invocations' = [invocations EXCEPT
                                     ![i].status = "failed",
                                     ![i].code = ExitCode(o),
                                     ![i].ended_at = now]
                /\ UNCHANGED <<entry, entry_src>>
    /\ ReleaseLock
    /\ UNCHANGED <<config, now>>

\* Lines 133-145: build the header value, set Authorization, remove Host and
\* hand the request to the client.
Forward(t) ==
    /\ tasks[t].pc = "got_token"
    /\ LET outgoing == OutgoingRequest(tasks[t].out, tasks[t].token_value)
       IN  tasks' = [tasks EXCEPT ![t] =
              IF ~HeaderValueValid(TokenHeader(tasks[t].token_value))
              THEN Returned(@, "HeaderEncodingError")
              ELSE IF ~ClientAccepts(outgoing)
              THEN Returned(@, "UpstreamUnreachable")
              ELSE [@ EXCEPT !.pc = "forwarding", !.out = outgoing,
                             !.sent_at = now, !.n_sends = @ + 1]]
    /\ UNCHANGED <<config, now, entry, lock_owner, lock_waiters, invocations,
                   entry_src>>

\* The upstream answers before the timer fires.
UpstreamResponds(t) ==
    /\ tasks[t].pc = "forwarding"
    /\ tasks' = [tasks EXCEPT ![t] = Returned(@, "Response")]
    /\ UNCHANGED <<config, now, entry, lock_owner, lock_waiters, invocations,
                   entry_src>>

\* The connection fails (refused, reset, TLS, DNS).
UpstreamFails(t) ==
    /\ tasks[t].pc = "forwarding"
    /\ tasks' = [tasks EXCEPT ![t] = Returned(@, "UpstreamUnreachable")]
    /\ UNCHANGED <<config, now, entry, lock_owner, lock_waiters, invocations,
                   entry_src>>

\* The timer of line 145 fires.
ForwardTimeout(t) ==
    /\ tasks[t].pc = "forwarding"
    /\ now >= ForwardDeadline(t)
    /\ tasks' = [tasks EXCEPT ![t] = Returned(@, "UpstreamTimeout")]
    /\ UNCHANGED <<config, now, entry, lock_owner, lock_waiters, invocations,
                   entry_src>>

\* The timers that are running.
Deadlines == {ForwardDeadline(t) : t \in {u \in Tasks : tasks[u].pc = "forwarding"}}

\* The instants the clock may move to next: a full step, or an instant in
\* between at which something changes (the entry expires, a timer fires).
TickTargets ==
    {now + TickStep}
    \cup {d \in Deadlines : d > now /\ d < now + TickStep}
    \cup (IF entry # None /\ ~InstantOverflows(entry)
            /\ entry.inserted_at + ttl > now
            /\ entry.inserted_at + ttl < now + TickStep
          THEN {entry.inserted_at + ttl}
          ELSE {})

\* Time passes.  A timer fires when its deadline is reached: the clock does
\* not pass a running timer's deadline.
Tick(n) ==
    /\ n \in TickTargets
    /\ \A d \in Deadlines : n <= d
    /\ n <= MaxTime
    /\ now' = n
    /\ UNCHANGED <<config, entry, lock_owner, lock_waiters, tasks, invocations,
                   entry_src>>

\* Past MaxTime the clock only runs a pending timer out.
RunOut(n) ==
    /\ n \in TickTargets
    /\ \A d \in Deadlines : n <= d
    /\ n > MaxTime
    /\ Deadlines # {}
    /\ now' = n
    /\ UNCHANGED <<config, entry, lock_owner, lock_waiters, tasks, invocations,
                   entry_src>>

\* Concurrent plain requests sharing the cache.
Next ==
    \/ \E t \in Tasks, r \in PlainRequests : Receive(t, r)
    \/ \E t \in Tasks : Check(t)
    \/ \E t \in Tasks, o \in ProviderOutcomes : ProviderExit(t, o)
    \/ \E t \in Tasks : Forward(t)
    \/ \E t \in Tasks : UpstreamResponds(t)
    \/ \E t \in Tasks : UpstreamFails(t)
    \/ \E t \in Tasks : ForwardTimeout(t)
    \/ \E n \in TickTargets : Tick(n)

Spec == Init /\ [][Next]_vars

\* One request of any form, to any target, with any outcome of the credential
\* command: the inputs of the rewriting and of the error paths.
InitRewrite ==
    /\ ttl \in TtlChoices
    /\ target_url \in TargetUrls
    /\ now = 0
    /\ entry = None
    /\ lock_owner = 0
    /\ lock_waiters = <<>>
    /\ tasks = [t \in Tasks |-> IdleTask]
    /\ invocations = <<>>
    /\ entry_src = 0

NextRewrite ==
    \/ \E r \in Requests : Receive(1, r)
    \/ Check(1)
    \/ \E o \in ProviderOutcomes : ProviderExit(1, o)
    \/ Forward(1)
    \/ UpstreamResponds(1)
    \/ UpstreamFails(1)
    \/ ForwardTimeout(1)
    \/ \E n \in TickTargets : Tick(n)
    \/ \E n \in TickTargets : RunOut(n)

SpecRewrite == InitRewrite /\ [][NextRewrite]_vars

\* One request to an upstream that never answers: no response and no
\* connection error.  The clock keeps running and a timer that is due fires.
NextSilent ==
    \/ \E r \in Requests : Receive(1, r)
    \/ Check(1)
    \/ \E o \in ProviderOutcomes : ProviderExit(1, o)
    \/ Forward(1)
    \/ ForwardTimeout(1)
    \/ \E n \in TickTargets : Tick(n)
    \/ \E n \in TickTargets : RunOut(n)

Clock == \E n \in TickTargets : Tick(n) \/ RunOut(n)

SpecSilent ==
    /\ InitRewrite
    /\ [][NextSilent]_vars
    /\ WF_vars(Clock)
    /\ WF_vars(ForwardTimeout(1))

\* The queue of the mutex without task t.
RECURSIVE WithoutWaiter(_, _)
WithoutWaiter(q, t) ==
    IF q = <<>> THEN <<>>
    ELSE IF Head(q) = t THEN WithoutWaiter(Tail(q), t)
    ELSE <<Head(q)>> \o WithoutWaiter(Tail(q), t)

\* A task dropped at an await whose guard is leaked: the mutex and its queue
\* stay as they are.
CancelKeepsLock(t) ==
    /\ tasks[t].pc \in {"locking", "refreshing", "forwarding"}
    /\ tasks' = [tasks EXCEPT ![t] =
                   [IdleTask EXCEPT !.pc = "cancelled",
                                    !.n_invocations = tasks[t].n_invocations,
                                    !.n_sends = tasks[t].n_sends]]
    /\ invocations' =
          IF tasks[t].pc = "refreshing"
          THEN [invocations EXCEPT ![tasks[t].src].status = "cancelled",
                                   ![tasks[t].src].ended_at = now]
          ELSE invocations
    /\ UNCHANGED <<config, now, entry, entry_src, lock_owner, lock_waiters>>

\* The connection of a request goes away and hyper drops the future of
\* handle_request at the await it is at: in entry.lock() (the waiter leaves
\* the queue, or gives back a mutex already handed to it), in the callback
\* (the result of the command is never read, line 73 is not reached and the
\* guard is dropped), or in the forward step.
Cancel(t) ==
    /\ tasks[t].pc \in {"locking", "refreshing", "forwarding"}
    /\ tasks' = [tasks EXCEPT ![t] =
                   [IdleTask EXCEPT !.pc = "cancelled",
                                    !.n_invocations = tasks[t].n_invocations,
                                    !.n_sends = tasks[t].n_sends]]
    /\ invocations' =
          IF tasks[t].pc = "refreshing"
          THEN [invocations EXCEPT ![tasks[t].src].status = "cancelled",
                                   ![tasks[t].src].ended_at = now]
          ELSE invocations
    /\ IF lock_owner = t
       THEN ReleaseLock
       ELSE /\ lock_waiters' = WithoutWaiter(lock_waiters, t)
            /\ UNCHANGED lock_owner
    /\ UNCHANGED <<config, now, entry, entry_src>>

\* Concurrent plain requests whose clients may go away at any await.
NextCancel ==
    \/ \E t \in Tasks, r \in PlainRequests : Receive(t, r)
    \/ \E t \in Tasks : Check(t)
    \/ \E t \in Tasks, o \in ProviderOutcomes : ProviderExit(t, o)
    \/ \E t \in Tasks : Forward(t)
    \/ \E t \in Tasks : UpstreamResponds(t)
    \/ \E t \in Tasks : UpstreamFails(t)
    \/ \E t \in Tasks : ForwardTimeout(t)
    \/ \E t \in Tasks : Cancel(t)
    \/ \E n \in TickTargets : Tick(n)

SpecCancel == Init /\ [][NextCancel]_vars

\* The scheduling of get_or_refresh: a task that holds the mutex is polled and
\* makes its check; a credential command that is running ends.
Scheduled(t) == Check(t) \/ \E o \in ProviderOutcomes : ProviderExit(t, o)

\* Concurrent plain requests under a fair scheduler, with a credential
\* command that always terminates.
SpecFair ==
    /\ Init
    /\ [][Next]_vars
    /\ \A t \in Tasks : WF_vars(Scheduled(t))

\* --------------------------------------------------------------- properties

\* The calls of get_or_refresh that returned a token.
HasToken(t) == tasks[t].pc \in {"got_token", "forwarding"}

\* The calls of get_or_refresh that passed the cache check of lines 65-67.
Checked(t) ==
    tasks[t].pc \in {"refreshing", "got_token", "forwarding", "panicked"}

ProviderErrors ==
    {"SubprocessSpawnFailed", "SubprocessFailed", "InvalidCredentialOutput"}

RunningInvocations ==
    {i \in DOMAIN invocations : invocations[i].status = "running"}

\* C1: at any instant at most one run of the credential command started
\* through get_or_refresh is outstanding, whatever the interleaving of the
\* tasks: at most one task is inside the callback, and it holds the lock.
C1_SingleFlight ==
    /\ Cardinality(RunningInvocations) <= 1
    /\ Cardinality({t \in Tasks : tasks[t].pc = "refreshing"}) <= 1
    /\ \A t \in Tasks : tasks[t].pc = "refreshing" => lock_owner = t

\* C1's case: a run is outstanding while another task waits for the lock.
C1_Witness ==
    \E t, u \in Tasks :
        /\ tasks[t].pc = "refreshing"
        /\ tasks[u].pc = "locking"
        /\ lock_waiters = <<u>>

ReachedCheck(t) ==
    \/ Checked(t)
    \/ /\ tasks[t].pc = "done"
       /\ tasks[t].result \notin {"InvalidTargetUrl", "InvalidUriParts"}

\* C6: with TTL = 0 every call that reaches the cache check misses and runs
\* the command itself: as many runs as calls that reached the check.
C6_ZeroTtlAlwaysRefreshes ==
    ttl = 0 =>
      /\ \A t \in Tasks : ReachedCheck(t) => tasks[t].n_invocations = 1
      /\ Len(invocations) = Cardinality({t \in Tasks : ReachedCheck(t)})

\* C6's case: with TTL = 0 a second call found the entry the first stored, at
\* the instant it was stored, and ran the command again.
C6_Witness ==
    /\ ttl = 0
    /\ Len(invocations) = 2
    /\ invocations[1].status = "ok"
    /\ \E t \in Tasks :
        /\ tasks[t].pc = "refreshing"
        /\ tasks[t].seen = 1
        /\ tasks[t].checked_at = invocations[1].ended_at

\* The slot holds nothing that a check at this instant would return.
NoFreshEntry == entry = None \/ entry.inserted_at + ttl <= now

FailedInvocations ==
    {i \in DOMAIN invocations : invocations[i].status = "failed"}

\* The first two parts of C4, which the amended claim keeps: a run of the
\* command that fails (spawn failure, non-zero exit status, output that is no
\* text) fails the request that ran it and is never what the slot holds; the
\* slot holds nothing or the entry of an earlier successful run.
C4_FailureFailsRequest ==
    /\ \A i \in DOMAIN invocations :
          (invocations[i].status # "running" /\ invocations[i].code # 0)
          => invocations[i].status = "failed"
    /\ \A i \in FailedInvocations : entry_src # i
    /\ Cardinality(FailedInvocations) =
          Cardinality({t \in Tasks : /\ tasks[t].pc = "done"
                                     /\ tasks[t].result \in ProviderErrors})
    /\ entry # None =>
          /\ entry_src \in DOMAIN invocations
          /\ invocations[entry_src].status = "ok"
          /\ entry.token = invocations[entry_src].token
          /\ entry.inserted_at = invocations[entry_src].ended_at

\* C4 as stated: after a failed run the cache is left empty.
C4_Original ==
    /\ C4_FailureFailsRequest
    /\ (invocations # <<>> /\ Len(invocations) \in FailedInvocations)
       => entry = None

\* C4, amended: after a failed run the slot is as it was, empty or holding the
\* expired entry of an earlier run, and holds nothing a check would return: the
\* next call runs the command again.
C4_FailureNotCached ==
    /\ C4_FailureFailsRequest
    /\ (invocations # <<>> /\ Len(invocations) \in FailedInvocations)
       => NoFreshEntry

\* C4's case: the command exited with status 2 while the slot held an expired
\* entry; the request failed and the expired entry is still in the slot.
C4_Witness ==
    /\ invocations # <<>>
    /\ invocations[Len(invocations)].status = "failed"
    /\ invocations[Len(invocations)].code = 2
    /\ entry # None
    /\ \E t \in Tasks :
        tasks[t].pc = "done" /\ tasks[t].result = "SubprocessFailed"

\* C5 as stated: a check at an instant in [t0, t0 + T) of an entry stored at
\* t0 returns the entry's token without running the command, and a check at
\* or after t0 + T runs the command.
C5_Original ==
    \A t \in Tasks :
        (Checked(t) /\ tasks[t].seen # 0) =>
            LET e == invocations[tasks[t].seen]
            IN  IF tasks[t].checked_at < e.ended_at + ttl
                THEN /\ e.ended_at <= tasks[t].checked_at
                     /\ HasToken(t)
                     /\ tasks[t].n_invocations = 0
                     /\ tasks[t].token_value = e.token
                ELSE tasks[t].n_invocations = 1

\* The window of C5 for the TTLs whose expiry instant is an Instant.
TtlWindowInRange == ttl # DurationMax => C5_Original

\* C10: no retries.  A handle_request runs the command at most once and sends
\* upstream at most once; a failure of the command is returned after that one
\* run with nothing sent, a failure of the upstream after that one send.
C10_NoRetries ==
    /\ \A t \in Tasks :
        /\ tasks[t].n_invocations <= 1
        /\ tasks[t].n_sends <= 1
        /\ (tasks[t].pc = "done" /\ tasks[t].result \in ProviderErrors)
           => tasks[t].n_invocations = 1 /\ tasks[t].n_sends = 0
        /\ (tasks[t].pc = "done" /\ tasks[t].result = "UpstreamTimeout")
           => tasks[t].n_sends = 1
    /\ Len(invocations) = Cardinality({t \in Tasks : tasks[t].n_invocations = 1})

\* C10's case: one request failed in the command, another in the upstream,
\* each after a single attempt.
C10_Witness ==
    \E t, u \in Tasks :
        /\ tasks[t].pc = "done" /\ tasks[t].result = "SubprocessFailed"
        /\ tasks[t].n_invocations = 1
        /\ tasks[u].pc = "done" /\ tasks[u].result = "UpstreamUnreachable"
        /\ tasks[u].n_invocations = 1 /\ tasks[u].n_sends = 1
        /\ Len(invocations) = 2

\* The configured target is an absolute URI with a scheme and an authority.
TargetIsAbsolute ==
    /\ Len(target_url) >= 3
    /\ target_url[1] \in Schemes
    /\ target_url[2] = "://"
    /\ target_url[3] \in Authorities

\* C7: for a target with scheme and authority, the request handed to the
\* client has the target's scheme and authority, the inbound path and query,
\* method and body, exactly one Authorization value, "Bearer " followed by
\* the token get_or_refresh returned, no Host value, and every other inbound
\* header as it came.
C7_RewriteCorrect ==
    \A t \in Tasks :
        (tasks[t].pc = "forwarding" /\ TargetIsAbsolute) =>
            LET in == tasks[t].req
                out == tasks[t].out
            IN  /\ out.uri.scheme = target_url[1]
                /\ out.uri.authority = target_url[3]
                /\ out.uri.path_and_query = in.uri.path_and_query
                /\ out.method = in.method
                /\ out.body = in.body
                /\ out.headers["authorization"] =
                      << <<66, 101, 97, 114, 101, 114, 32>> \o tasks[t].token_value >>
                /\ out.headers["host"] = <<>>
                /\ \A h \in HeaderNames \ {"authorization", "host"} :
                      out.headers[h] = in.headers[h]
                /\ tasks[t].token_value = invocations[tasks[t].src].token

\* C7's case: an absolute-form request with two Authorization values, and one
\* with a Host header, rewritten for a target that has a path of its own.
C7_Witness ==
    \E t \in Tasks :
        /\ tasks[t].pc = "forwarding"
        /\ TargetIsAbsolute
        /\ Len(target_url) = 4
        /\ tasks[t].req.uri.authority = "proxy.local"
        /\ Len(tasks[t].req.headers["authorization"]) = 2
        /\ tasks[t].out.uri = UriParts("https", "upstream.example:8443", "/p")

\* C8 as stated: a target that is no absolute URI with scheme and authority
\* fails every request before the token is looked up, with the error of the
\* target (read generously: that of line 104 or that of line 111), and nothing
\* is sent; a token that is no header value is never sent either.
C8_Original ==
    /\ ~TargetIsAbsolute =>
          \A t \in Tasks :
              tasks[t].pc # "idle" =>
                  /\ tasks[t].pc = "done"
                  /\ tasks[t].result \in {"InvalidTargetUrl", "InvalidUriParts"}
                  /\ tasks[t].n_sends = 0
    /\ \A t \in Tasks :
          tasks[t].pc = "forwarding" =>
              HeaderValueValid(TokenHeader(tasks[t].token_value))

\* C9: while a request is with the upstream no more than 600 s have passed
\* since it was sent; when the upstream never answers, the forward step ends
\* 600 s after it started, with the timeout error, and it always ends.
C9_ForwardTimesOut ==
    /\ [](\A t \in Tasks :
            tasks[t].pc = "forwarding" => now <= tasks[t].sent_at + 600)
    /\ [][\A t \in Tasks :
            (tasks[t].pc = "forwarding" /\ tasks'[t].pc # "forwarding")
            => /\ tasks'[t].pc = "done"
               /\ tasks'[t].result = "UpstreamTimeout"
               /\ now = tasks[t].sent_at + 600]_vars
    /\ \A t \in Tasks :
          (tasks[t].pc = "forwarding")
          ~> (tasks[t].pc = "done" /\ tasks[t].result = "UpstreamTimeout")

\* C9's case: a request sent after the clock started has timed out.
C9_Witness ==
    \E t \in Tasks :
        /\ tasks[t].pc = "done"
        /\ tasks[t].result = "UpstreamTimeout"
        /\ tasks[t].n_sends = 1
        /\ now > 600

\* The results with which handle_request fails.
FailureResults ==
    ProviderErrors \cup {"InvalidTargetUrl", "InvalidUriParts",
                         "HeaderEncodingError", "UpstreamUnreachable",
                         "UpstreamTimeout"}

Failed(t) == tasks[t].pc = "done" /\ tasks[t].result \in FailureResults

\* The tasks queued for the mutex.
Waiting == {lock_waiters[i] : i \in DOMAIN lock_waiters}

\* C11: a request that fails (in the rewrite, the command, the header, the
\* upstream or the timeout) ends as a result of its own task and nothing else:
\* it holds no lock and is in no queue afterwards, so that when every request
\* so far has failed the mutex is free and the next request is accepted; the
\* step in which it fails changes no other task, not the configuration, not
\* the clock and not the slot, and touches the mutex only to release it; and
\* no step of one task ever changes another task's record.
C11_FailuresAreIsolated ==
    /\ [](\A t \in Tasks : Failed(t) => lock_owner # t /\ t \notin Waiting)
    /\ []((\A t \in Tasks : tasks[t].pc = "idle" \/ Failed(t))
            => /\ lock_owner = 0 /\ lock_waiters = <<>>
               /\ \A t \in Tasks :
                     (/\ tasks[t].pc = "idle"
                      /\ now <= MaxTime
                      /\ \A u \in Tasks : u < t => Failed(u))
                     => ENABLED (\E r \in PlainRequests : Receive(t, r)))
    /\ [][/\ config' = config
          /\ \A t, u \in Tasks :
                (t # u /\ tasks'[t] # tasks[t]) => tasks'[u] = tasks[u]
          /\ \A t \in Tasks :
                (~Failed(t) /\ Failed(t)') =>
                    /\ now' = now
                    /\ entry' = entry /\ entry_src' = entry_src
                    /\ \/ UNCHANGED <<lock_owner, lock_waiters>>
                       \/ lock_owner = t /\ lock_owner' # t]_vars

\* C11's case: a request failed in the command; a later request ran the
\* command again and was served by the upstream.
C11_Witness ==
    \E t, u \in Tasks :
        /\ t < u
        /\ Failed(t) /\ tasks[t].result = "SubprocessFailed"
        /\ Len(invocations) = 2
        /\ invocations[1].status = "failed"
        /\ invocations[2].status = "ok"
        /\ tasks[u].pc = "done" /\ tasks[u].result = "Response"

\* C12 as stated: a request whose cache check finds the entry of run s still
\* valid (its instant is before the entry's expiry) is a hit: it runs no
\* command, and the request it hands to the client is the one an equal
\* inbound request got with the token of s.
C12_Original ==
    \A u \in Tasks :
        (/\ Checked(u)
         /\ tasks[u].seen # 0
         /\ tasks[u].checked_at < invocations[tasks[u].seen].ended_at + ttl)
        => /\ HasToken(u)
           /\ tasks[u].n_invocations = 0
           /\ \A t \in Tasks :
                 (/\ t # u
                  /\ tasks[t].pc = "forwarding"
                  /\ tasks[u].pc = "forwarding"
                  /\ tasks[t].req = tasks[u].req
                  /\ tasks[t].src = tasks[u].seen)
                 => tasks[t].out = tasks[u].out

\* The repetition of C12 for the TTLs whose expiry instant is an Instant.
RepeatInRange == ttl # DurationMax => C12_Original

\* A repeated request is with the upstream together with the request that
\* refreshed the entry it hit.
RepeatForwarded ==
    \E t, u \in Tasks :
        /\ t # u
        /\ tasks[t].pc = "forwarding" /\ tasks[u].pc = "forwarding"
        /\ tasks[u].n_invocations = 0
        /\ tasks[t].n_invocations = 1
        /\ tasks[u].out = tasks[t].out

\* C13 as stated: a call that arrived while a run of the command was
\* outstanding does not get the lock before that run ends, and after a run
\* that succeeded it returns that run's token without running the command.
C13_Original ==
    /\ \A t \in Tasks :
          (tasks[t].pc = "locking" /\ Outstanding # 0) => lock_owner # t
    /\ \A t \in Tasks :
          LET g == tasks[t].waited_on
          IN  (g # 0 /\ invocations[g].status = "ok" /\ Checked(t))
              => /\ HasToken(t)
                 /\ tasks[t].n_invocations = 0
                 /\ tasks[t].src = g
                 /\ tasks[t].token_value = invocations[g].token

\* C13, amended: a call that arrived while a run of the command was
\* outstanding is queued and does not hold the lock while a run is
\* outstanding; no call leaves get_or_refresh (hit, token, error or panic)
\* while a run other than its own is outstanding; and after the run it waited
\* on succeeded, a check before that entry's expiry runs no command and
\* returns no token but that run's, while a check at or after the expiry (any
\* check when the TTL is 0) does not return that run's token: the call runs
\* the command itself, unless a call before it in the queue has refreshed the
\* entry meanwhile (never when the TTL is 0).
C13_WaitersBlock ==
    /\ [](\A t \in Tasks :
            (tasks[t].pc = "locking" /\ Outstanding # 0)
            => lock_owner # t /\ t \in Waiting)
    /\ [][\A t \in Tasks :
            (/\ tasks[t].pc \in {"locking", "refreshing"}
             /\ tasks'[t].pc \notin {"locking", "refreshing"})
            => /\ RunningInvocations \subseteq {tasks[t].src}
               /\ RunningInvocations' = {}]_vars
    /\ [](\A t \in Tasks :
            LET g == tasks[t].waited_on
            IN  (g # 0 /\ invocations[g].status = "ok" /\ Checked(t))
                => IF tasks[t].checked_at < invocations[g].ended_at + ttl
                   THEN /\ tasks[t].n_invocations = 0
                        /\ HasToken(t) =>
                              /\ tasks[t].src = g
                              /\ tasks[t].token_value = invocations[g].token
                   ELSE /\ tasks[t].src > g
                        /\ tasks[t].n_invocations = 0 => tasks[t].seen > g
                        /\ ttl = 0 => tasks[t].n_invocations = 1)

\* C13's case: with a TTL of 450 s a call that queued behind a run of the
\* command checked the cache at the instant that run ended and went on to the
\* upstream with that run's token.
C13_Witness ==
    /\ ttl = 450
    /\ \E t \in Tasks :
          /\ tasks[t].pc = "forwarding"
          /\ tasks[t].waited_on # 0
          /\ tasks[t].src = tasks[t].waited_on
          /\ tasks[t].n_invocations = 0
          /\ tasks[t].checked_at = invocations[tasks[t].waited_on].ended_at

\* The results of a failure in lines 100-111, before the token is looked up.
RewriteErrors == {"InvalidTargetUrl", "InvalidUriParts"}

\* The awaits a task can be at next, in the order of handle_request: the
\* rewrite, then the lookup or refresh, then the header, then the send.
StepsAfter(pc) ==
    CASE pc = "idle" -> {"locking", "done"}
      [] pc = "locking" -> {"refreshing", "got_token", "panicked"}
      [] pc = "refreshing" -> {"got_token", "done"}
      [] pc = "got_token" -> {"forwarding", "done"}
      [] pc = "forwarding" -> {"done"}
      [] OTHER -> {}

\* C14: the steps of one handle_request come in order: rewrite, token lookup
\* or refresh, header, send.  A request is with the upstream only after the
\* target parsed, the URI was rebuilt and get_or_refresh returned a token that
\* is a header value, and it carries Authorization = "Bearer " + that token; a
\* request that failed in the rewrite ran no command and sent nothing; the
\* command is started only from the lookup and the send only from the header
\* step.
C14_StepsInOrder ==
    /\ [](\A t \in Tasks :
            /\ tasks[t].pc = "forwarding" =>
                  /\ ParseUri(target_url).ok
                  /\ tasks[t].out.uri =
                        RewrittenParts(tasks[t].req, ParseUri(target_url).uri)
                  /\ FromPartsOk(tasks[t].out.uri)
                  /\ tasks[t].src \in DOMAIN invocations
                  /\ invocations[tasks[t].src].status = "ok"
                  /\ tasks[t].token_value = invocations[tasks[t].src].token
                  /\ tasks[t].out.headers["authorization"] =
                        << <<66, 101, 97, 114, 101, 114, 32>>
                             \o tasks[t].token_value >>
                  /\ \A i \in 1..Len(tasks[t].token_value) :
                        HeaderByteValid(tasks[t].token_value[i])
                  /\ tasks[t].n_sends = 1
            /\ (tasks[t].pc = "done" /\ tasks[t].result \in RewriteErrors) =>
                  /\ tasks[t].n_invocations = 0
                  /\ tasks[t].n_sends = 0
                  /\ invocations = <<>>)
    /\ [][\A t \in Tasks :
            /\ tasks'[t].pc # tasks[t].pc =>
                  tasks'[t].pc \in StepsAfter(tasks[t].pc)
            /\ (tasks[t].pc = "idle" /\ tasks'[t].pc = "done") =>
                  tasks'[t].result \in RewriteErrors
            /\ tasks'[t].n_invocations # tasks[t].n_invocations =>
                  tasks[t].pc = "locking" /\ tasks'[t].pc = "refreshing"
            /\ tasks'[t].n_sends # tasks[t].n_sends =>
                  tasks[t].pc = "got_token" /\ tasks'[t].pc = "forwarding"]_vars

\* C14's case: a CONNECT request is with the upstream carrying "Bearer A",
\* the trimmed output of the one run of the command.
C14_Witness ==
    /\ tasks[1].pc = "forwarding"
    /\ tasks[1].req.method = "CONNECT"
    /\ tasks[1].token_value = <<65>>
    /\ tasks[1].out.headers["authorization"] =
          << <<66, 101, 97, 114, 101, 114, 32, 65>> >>
    /\ Len(invocations) = 1

\* The most recent run of the command that succeeded, 0 for none.
RECURSIVE LastOkUpTo(_)
LastOkUpTo(n) ==
    IF n = 0 THEN 0
    ELSE IF invocations[n].status = "ok" THEN n
    ELSE LastOkUpTo(n - 1)

LastOk == LastOkUpTo(Len(invocations))

\* A byte string without whitespace at either end.
IsTrimmed(bs) ==
    bs = <<>> \/ (~IsWhitespace(bs[1]) /\ ~IsWhitespace(bs[Len(bs)]))

\* C15: the slot is empty until a run of the command succeeds and then holds
\* exactly the entry of the most recent successful run, its token and the
\* instant it ended; that token is the run's output without the whitespace at
\* its ends; and every token get_or_refresh returns, from the slot or from the
\* caller's own run, is the token of the most recent successful run at the
\* instant of the return, never that of a run since superseded.
C15_LatestToken ==
    /\ [](/\ entry_src = LastOk
          /\ entry = None <=> LastOk = 0
          /\ entry # None =>
                /\ entry.token = invocations[LastOk].token
                /\ entry.inserted_at = invocations[LastOk].ended_at
          /\ \A i \in DOMAIN invocations :
                invocations[i].status = "ok" =>
                    /\ IsTrimmed(invocations[i].token)
                    /\ invocations[i].token \in {<<65>>, <<66>>, <<65, 10, 66>>})
    /\ [][\A t \in Tasks :
            (tasks[t].pc # "got_token" /\ tasks'[t].pc = "got_token") =>
                /\ LastOk' # 0
                /\ tasks'[t].src = LastOk'
                /\ tasks'[t].token_value = invocations'[LastOk'].token
                /\ tasks'[t].token_value = entry'.token]_vars

\* C15's case: a second successful run replaced the entry of the first with a
\* different token, and its caller returned the new one.
C15_Witness ==
    /\ Len(invocations) = 2
    /\ invocations[1].status = "ok" /\ invocations[2].status = "ok"
    /\ invocations[1].token # invocations[2].token
    /\ entry # None /\ entry.token = invocations[2].token
    /\ \E t \in Tasks :
          tasks[t].pc = "got_token" /\ tasks[t].token_value = invocations[2].token

\* C16: while a refresh is under way the slot is what the refreshing call
\* found at its check, and the step in which the refresh fails leaves the
\* slot as it is: empty if it was empty, else the same entry with the same
\* token and insertion instant; the records of finished runs never change; and
\* a call takes a token from the slot only while the entry is unexpired, so an
\* expired entry left in the slot is never returned.
C16_FailedRefreshFrame ==
    /\ [](\A t \in Tasks :
            tasks[t].pc = "refreshing" => entry_src = tasks[t].seen)
    /\ [][\A t \in Tasks :
            /\ (tasks[t].pc = "refreshing" /\ tasks'[t].pc = "done") =>
                  /\ tasks'[t].result \in ProviderErrors
                  /\ entry' = entry
                  /\ entry_src' = entry_src
            /\ (tasks[t].pc = "refreshing" /\ tasks'[t].pc = "refreshing") =>
                  entry' = entry
            /\ (tasks[t].pc = "locking" /\ tasks'[t].pc = "got_token") =>
                  /\ entry # None
                  /\ entry.inserted_at + ttl > now
                  /\ tasks'[t].token_value = entry.token
                  /\ entry' = entry]_vars
    /\ [](\A t \in Tasks :
            (HasToken(t) /\ tasks[t].n_invocations = 0) =>
                tasks[t].checked_at < invocations[tasks[t].src].ended_at + ttl)

\* C16's case: the command could not be started while the slot held an
\* expired entry of a TTL of 450 s; the request failed and the expired entry
\* is in the slot as the first run stored it.
C16_Witness ==
    /\ ttl = 450
    /\ Len(invocations) = 2
    /\ invocations[1].status = "ok"
    /\ invocations[2].status = "failed" /\ invocations[2].code = -1
    /\ entry = [token |-> invocations[1].token,
                inserted_at |-> invocations[1].ended_at]
    /\ entry.inserted_at + ttl <= now
    /\ \E t \in Tasks :
          tasks[t].pc = "done" /\ tasks[t].result = "SubprocessSpawnFailed"

\* The token of run i is no legal header value after "Bearer ".
IllegalToken(i) == ~HeaderValueValid(TokenHeader(invocations[i].token))

\* C17 as stated: a token that is no legal header value is stored like any
\* other; a request whose check finds that entry still valid takes the token
\* from the slot, runs no command and sends nothing (it fails at the header
\* step); no request with such a token is ever with the upstream.
C17_Original ==
    /\ (LastOk # 0 /\ IllegalToken(LastOk)) =>
          entry # None /\ entry.token = invocations[LastOk].token
    /\ \A t \in Tasks :
          (/\ Checked(t)
           /\ tasks[t].seen # 0
           /\ IllegalToken(tasks[t].seen)
           /\ tasks[t].checked_at < invocations[tasks[t].seen].ended_at + ttl)
          => /\ tasks[t].pc = "got_token"
             /\ tasks[t].n_invocations = 0
             /\ tasks[t].n_sends = 0
             /\ tasks[t].token_value = invocations[tasks[t].seen].token
    /\ \A t \in Tasks :
          tasks[t].pc = "forwarding" =>
              HeaderValueValid(TokenHeader(tasks[t].token_value))

\* The cached illegal token of C17 for the TTLs whose expiry instant is an
\* Instant, with the step that fails: a request holding an illegal token
\* leaves the header step with the header-encoding error.
IllegalTokenInRange ==
    /\ [](ttl # DurationMax => C17_Original)
    /\ [][\A t \in Tasks :
            (/\ tasks[t].pc = "got_token"
             /\ ~HeaderValueValid(TokenHeader(tasks[t].token_value))
             /\ tasks'[t] # tasks[t])
            => /\ tasks'[t].pc = "done"
               /\ tasks'[t].result = "HeaderEncodingError"
               /\ tasks'[t].n_sends = 0]_vars

\* Two requests failed at the header step on one run of the command: the
\* second took the illegal token from the slot.
IllegalTokenHit ==
    /\ Len(invocations) = 1
    /\ IllegalToken(1)
    /\ \A t \in Tasks :
          tasks[t].pc = "done" /\ tasks[t].result = "HeaderEncodingError"

\* C18: a task dropped while it holds the lock in a refresh holds it no
\* longer: the step leaves the slot as it is and passes the mutex to the
\* oldest waiter (frees it when none waits); a dropped task never owns the
\* mutex nor waits for it, and whoever owns it is a live task inside
\* get_or_refresh; and the check that follows a dropped refresh, no run since,
\* finds nothing valid and starts a run of its own.
C18_CancelReleasesLock ==
    /\ [](\A t \in Tasks :
            tasks[t].pc = "cancelled" => lock_owner # t /\ t \notin Waiting)
    /\ [](lock_owner # 0 =>
            /\ tasks[lock_owner].pc \in {"locking", "refreshing"}
            /\ lock_owner \notin Waiting)
    /\ [](\A t \in Waiting : tasks[t].pc = "locking" /\ lock_owner # 0)
    /\ [][\A t \in Tasks :
            /\ (tasks[t].pc = "refreshing" /\ tasks'[t].pc = "cancelled") =>
                  /\ lock_owner = t
                  /\ entry' = entry /\ entry_src' = entry_src
                  /\ IF lock_waiters = <<>>
                     THEN lock_owner' = 0 /\ lock_waiters' = <<>>
                     ELSE /\ lock_owner' = lock_waiters[1]
                          /\ lock_waiters' = Tail(lock_waiters)
            /\ (/\ tasks[t].pc = "locking"
                /\ tasks'[t].pc \notin {"locking", "cancelled"}
                /\ invocations # <<>>
                /\ invocations[Len(invocations)].status = "cancelled") =>
                  /\ tasks'[t].pc = "refreshing"
                  /\ tasks'[t].src = Len(invocations) + 1
                  /\ Len(invocations') = Len(invocations) + 1]_vars

\* C18's case: the first request was dropped during its refresh while the
\* second waited for the lock; the second now holds the lock and runs the
\* command itself.
C18_Witness ==
    /\ tasks[1].pc = "cancelled"
    /\ tasks[1].n_invocations = 1
    /\ Len(invocations) = 2
    /\ invocations[1].status = "cancelled"
    /\ tasks[2].pc = "refreshing"
    /\ tasks[2].waited_on = 1
    /\ lock_owner = 2

\* The calls that are inside get_or_refresh.
InGetOrRefresh(t) == tasks[t].pc \in {"locking", "refreshing"}

\* C19: under a fair scheduler and with a command that always ends, every call
\* of get_or_refresh leaves it (with a token or an error; by the panic of the
\* check when the expiry overflows) and every holder of the lock gives it up,
\* so no waiter starves.  While a run of the command is outstanding no call
\* leaves get_or_refresh: the only step that takes a call out of it while a
\* run is outstanding is the end of that run, and a run ends only by the
\* command ending, never by the clock.
C19_CallsTerminate ==
    /\ \A t \in Tasks : InGetOrRefresh(t) ~> ~InGetOrRefresh(t)
    /\ \A t \in Tasks : (lock_owner = t) ~> (lock_owner # t)
    /\ [](RunningInvocations # {} =>
            /\ lock_owner # 0
            /\ tasks[lock_owner].pc = "refreshing"
            /\ \A t \in Tasks :
                  (InGetOrRefresh(t) /\ t # lock_owner) => t \in Waiting)
    /\ [][/\ \A t \in Tasks :
                (InGetOrRefresh(t) /\ ~InGetOrRefresh(t)')
                => /\ RunningInvocations \subseteq {tasks[t].src}
                   /\ RunningInvocations' = {}
          /\ \A i \in DOMAIN invocations :
                (invocations[i].status = "running"
                   /\ invocations'[i].status # "running")
                => /\ now' = now
                   /\ \E t \in Tasks :
                         /\ tasks[t].pc = "refreshing"
                         /\ tasks[t].src = i
                         /\ tasks'[t].pc # "refreshing"]_vars

\* C19's case: a call waited for the lock through a whole run of the command
\* while the clock went past 600 s, then ran the command itself and returned
\* its token.
C19_Witness ==
    \E t \in Tasks :
        /\ tasks[t].pc = "got_token"
        /\ tasks[t].waited_on = 1
        /\ tasks[t].n_invocations = 1
        /\ tasks[t].src = 2
        /\ invocations[1].ended_at >= 600

====
